---- MODULE Spec2Model ----
(***************************************************************************)
(* Band Practice Pro: the request handlers of webapp_v3 and webapp_v2 as   *)
(* a state machine over the Firestore documents they read and write.       *)
(*                                                                         *)
(* One action is one HTTP request handled from start to finish (or one     *)
(* step of the background prefetch thread).  What Spotify and Genius       *)
(* answer is an input of the request.  Timestamps, display metadata, the   *)
(* positions of a song in its playlists, the v3 playlist memory and the    *)
(* audit log are not represented: no handler modelled here reads them.     *)
(* source_playlist_ids, a list the code keeps free of duplicates and whose *)
(* order it never reads, is a set.  Every track with an id is taken to     *)
(* carry a title and an artist.                                            *)
(***************************************************************************)
EXTENDS Integers, Sequences, FiniteSets, TLC

\* ------------------------------------------------------------------ bounds
MaxSongs  == 3     \* song documents that can exist at a time
MaxLinked == 2     \* longest linked_playlists array

Users     == {"u1", "u2"}
CollIds   == {"c1", "c2"}
Playlists == {"p1", "p2"}
Tracks    == {"t1", "t2"}
NoTrackId == "none"          \* a playlist item whose track has no id
NoId      == "-"             \* no collection / song / playlist named
SongIds   == 1..MaxSongs

VARIABLES
    colls,      \* collections_v3: collection id -> document
    songs,      \* songs_v3: song id -> document
    bg,         \* collections with a running background lyrics/BPM prefetch
    colls2,     \* webapp_v2 collections: collection id -> document
    songs2,     \* webapp_v2 songs: song id -> document
    memory2,    \* webapp_v2 playlist_memory_v2: the playlist ids with an entry
    oauth2,     \* webapp_v2 oauth_states, the clock and the running verifications
    v3aux,      \* webapp_v3: the running GET /api/v3/collections requests,
                \* spotify_tokens_v3 and the uids that were handed an auth URL
    resp        \* the request handled last and its response

v3db == <<colls, songs, bg, v3aux>>
v2aux == <<memory2, oauth2>>
v2db == <<colls2, songs2, memory2, oauth2>>
vars == <<colls, songs, bg, colls2, songs2, memory2, oauth2, v3aux, resp>>

\* ------------------------------------------------------------------ helpers
Range(s) == {s[i] : i \in DOMAIN s}

RECURSIVE UpdatedPlaylists(_, _, _)
\* unlink_playlist: the entries of linked_playlists, from index i on, whose
\* playlist_id is not p
UpdatedPlaylists(linked, p, i) ==
    IF i > Len(linked) THEN <<>>
    ELSE (IF linked[i].playlist_id # p THEN <<linked[i]>> ELSE <<>>)
         \o UpdatedPlaylists(linked, p, i + 1)

Min(S) == CHOOSE x \in S : \A y \in S : x <= y
Max(S) == CHOOSE x \in S : \A y \in S : x >= y

\* ------------------------------------------------------------------ documents
NoColl ==
    [exists |-> FALSE, owner_uid |-> NoId, name |-> "", is_personal |-> FALSE,
     is_public |-> FALSE, collaborators |-> {}, collaboration_requests |-> {},
     linked_playlists |-> <<>>, song_count |-> 0]

NoSong ==
    [exists |-> FALSE, collection_id |-> NoId, track |-> NoId,
     source_playlist_ids |-> {},
     is_orphaned |-> FALSE, lyrics |-> "", lyrics_fetched |-> FALSE,
     is_customized |-> FALSE, custom_lyrics |-> FALSE, notes |-> "",
     bpm |-> "N/A", lyrics_fetch_error |-> "none"]

\* the document batch_create_or_update_songs / create_or_update_song writes
\* for a track that is new to the collection
NewSong(c, p, t) ==
    [exists |-> TRUE, collection_id |-> c, track |-> t,
     source_playlist_ids |-> {p},
     is_orphaned |-> FALSE, lyrics |-> "", lyrics_fetched |-> FALSE,
     is_customized |-> FALSE, custom_lyrics |-> FALSE, notes |-> "",
     bpm |-> "N/A", lyrics_fetch_error |-> "none"]

SongsOf(S, c) == {i \in SongIds : S[i].exists /\ S[i].collection_id = c}

FreeIds(S) == {i \in SongIds : ~S[i].exists}

\* ------------------------------------------------------------------ responses
NoResp ==
    [op |-> "none", uid |-> NoId, status |-> 0, coll |-> NoId, song |-> 0,
     track |-> NoId, pid |-> NoId, tracks |-> <<>>, again |-> FALSE,
     seen |-> {}, present |-> {}, force |-> FALSE, malformed |-> FALSE,
     deleted |-> 0, lines |-> <<>>, numbered |-> <<>>, fetched |-> {}]

Resp(op, u, st) == [NoResp EXCEPT !.op = op, !.uid = u, !.status = st]

\* ------------------------------------------------------------------ Spotify
\* SpotifyServiceV3.get_playlist_tracks: the playlist's tracks, or [] when the
\* Spotify call raises
GetPlaylistTracks(content, ok) == IF ok THEN content ELSE <<>>

\* ------------------------------------------------------------------ access
\* CollectionsService.get_collection: None unless the collection exists and
\* the user is owner, collaborator, or the collection is public
GetCollection(c, u) ==
    /\ c \in CollIds
    /\ colls[c].exists
    /\ \/ colls[c].owner_uid = u
       \/ u \in colls[c].collaborators
       \/ colls[c].is_public

CheckUserAccessLevel(c, u) ==
    IF ~(c \in CollIds /\ colls[c].exists) THEN "none"
    ELSE IF colls[c].owner_uid = u THEN "owner"
    ELSE IF u \in colls[c].collaborators THEN "collaborator"
    ELSE IF colls[c].is_public THEN "viewer"
    ELSE "none"

\* ------------------------------------------------------------------ songs service
\* a lookup that finds no document
ExistingSongNone(S, c, t) == 0

\* existing_songs[t] of batch_create_or_update_songs: the dict comprehension
\* keeps, for each track id, the last document the query streams (documents
\* stream in id order); 0 when the collection has no document for the track
ExistingSong(S, c, t) ==
    LET ids == {i \in SongsOf(S, c) : S[i].track = t}
    IN IF ids = {} THEN 0 ELSE Max(ids)

\* an update that also writes the fields of a new document
UpdateExistingReset(doc, p) ==
    [doc EXCEPT !.source_playlist_ids = @ \cup {p}, !.lyrics = "",
                !.lyrics_fetched = FALSE, !.notes = "", !.bpm = "N/A"]

\* the update branch: add the playlist to source_playlist_ids when absent
\* (and set the song's position in it); no other field is written
UpdateExisting(doc, p) ==
    [doc EXCEPT !.source_playlist_ids = @ \cup {p}]

RECURSIVE BatchLoop(_, _, _, _, _, _)
\* the loop of batch_create_or_update_songs over tracks_data from index i on;
\* S0 is the snapshot queried before the loop, acc the writes so far
BatchLoop(S0, acc, c, p, tracks, i) ==
    IF i > Len(tracks) THEN acc
    ELSE
      LET t == tracks[i]
          e == ExistingSong(S0, c, t)
      IN IF t = NoTrackId THEN BatchLoop(S0, acc, c, p, tracks, i + 1)
         ELSE IF e # 0 THEN
           BatchLoop(S0,
                     [acc EXCEPT !.S[e] = UpdateExisting(@, p),
                                 !.updated = @ + 1],
                     c, p, tracks, i + 1)
         ELSE IF FreeIds(acc.S) = {} THEN
           BatchLoop(S0, [acc EXCEPT !.full = TRUE], c, p, tracks, i + 1)
         ELSE
           BatchLoop(S0,
                     [acc EXCEPT !.S[Min(FreeIds(acc.S))] = NewSong(c, p, t),
                                 !.created = @ + 1],
                     c, p, tracks, i + 1)

\* SongsService.batch_create_or_update_songs: the songs afterwards and the
\* created/updated counts (full: the model ran out of song ids)
BatchCreateOrUpdateSongs(S, c, p, tracks) ==
    BatchLoop(S, [S |-> S, created |-> 0, updated |-> 0, full |-> FALSE],
              c, p, tracks, 1)

\* Firestore ArrayUnion: append the element unless an equal one is present
ArrayUnion(arr, e) == IF e \in Range(arr) THEN arr ELSE Append(arr, e)

\* datetime.utcnow() of a new linked_playlists entry: a value that no entry
\* of the array for the same playlist carries
FreshStamp(arr, p) ==
    Min({n \in 0..Len(arr) :
            \A i \in DOMAIN arr : arr[i].playlist_id = p => arr[i].linked_at # n})

LinkedIds(c) == {colls[c].linked_playlists[i].playlist_id :
                    i \in DOMAIN colls[c].linked_playlists}

\* ------------------------------------------------------------------ handlers
\* POST /api/v3/collections
CreateCollection(u, c, name, public) ==
    /\ ~colls[c].exists
    /\ IF name = ""
       THEN /\ resp' = Resp("create_collection", u, 400)
            /\ UNCHANGED colls
       ELSE /\ colls' = [colls EXCEPT ![c] =
                   [NoColl EXCEPT !.exists = TRUE, !.owner_uid = u,
                                  !.name = name, !.is_public = public]]
            /\ resp' = [Resp("create_collection", u, 201) EXCEPT !.coll = c]
    /\ UNCHANGED <<songs, bg, v2db, v3aux>>

\* the request handled last was a completed import of the same playlist into
\* the same collection, and Spotify returned the same track list to it
SameImport(c, p, tracks) ==
    /\ resp.op = "import" /\ resp.status = 200
    /\ resp.coll = c /\ resp.pid = p /\ resp.tracks = tracks

\* the status import_playlist answers with, in the order of its checks
ImportStatus(u, c, url, metaOk) ==
    IF c = NoId \/ url = "" THEN 400
    ELSE IF ~GetCollection(c, u) THEN 404
    ELSE IF colls[c].owner_uid # u THEN 403
    ELSE IF url \notin Playlists THEN 400
    ELSE IF ~metaOk THEN 500
    ELSE 200

\* POST /api/v3/playlists/import
ImportPlaylist(u, c, url, metaOk, content, ok) ==
    LET st     == ImportStatus(u, c, url, metaOk)
        tracks == GetPlaylistTracks(content, ok)
        res    == BatchCreateOrUpdateSongs(songs, c, url, tracks)
        rq     == [Resp("import", u, st) EXCEPT !.coll = c, !.pid = url,
                                                 !.malformed = (c = NoId \/ url = ""),
                                                 !.tracks = tracks,
                                                 !.again = SameImport(c, url, tracks)]
    IN IF st # 200
       THEN /\ resp' = rq
            /\ UNCHANGED <<colls, songs, bg, v2db, v3aux>>
       ELSE /\ ~res.full
            /\ Len(colls[c].linked_playlists) < MaxLinked
            /\ songs' = res.S
            /\ colls' = [colls EXCEPT ![c] =
                   [@ EXCEPT
                      !.linked_playlists =
                          ArrayUnion(@, [playlist_id |-> url,
                                         linked_at |-> FreshStamp(@, url)]),
                      !.song_count = Cardinality(SongsOf(res.S, c))]]
            /\ bg' = bg \cup {c}
            /\ resp' = rq
            /\ UNCHANGED <<v2db, v3aux>>

\* the tracks a sync fetches for one linked playlist
Fetched(fetch, p) == GetPlaylistTracks(fetch[p].tracks, fetch[p].ok)

RECURSIVE SyncLoop(_, _, _, _, _)
\* the loop of sync_playlists over linked_playlists from entry i on
SyncLoop(acc, c, linked, fetch, i) ==
    IF i > Len(linked) THEN acc
    ELSE
      LET p      == linked[i].playlist_id
          tracks == Fetched(fetch, p)
          res    == BatchCreateOrUpdateSongs(acc.S, c, p, tracks)
      IN SyncLoop([S       |-> res.S,
                   created |-> acc.created + res.created,
                   updated |-> acc.updated + res.updated,
                   full    |-> acc.full \/ res.full,
                   seen    |-> acc.seen \cup (Range(tracks) \ {NoTrackId})],
                  c, linked, fetch, i + 1)

\* the orphan pass of sync_playlists: a song of the collection is marked when
\* its track is in none of the fetched lists and unmarked when it is in one
MarkOrphans(S, c, seen) ==
    [i \in SongIds |->
        IF i \in SongsOf(S, c)
        THEN [S[i] EXCEPT !.is_orphaned = (S[i].track \notin seen)]
        ELSE S[i]]

NonOrphanedCount(S, c) == Cardinality({i \in SongsOf(S, c) : ~S[i].is_orphaned})

SyncStatus(u, c) ==
    IF ~GetCollection(c, u) THEN 404
    ELSE IF CheckUserAccessLevel(c, u) \notin {"owner", "collaborator"} THEN 403
    ELSE 200

\* POST /api/v3/collections/<collection_id>/sync-playlists
SyncPlaylists(u, c, fetch) ==
    LET st     == SyncStatus(u, c)
        linked == colls[c].linked_playlists
        res    == SyncLoop([S |-> songs, created |-> 0, updated |-> 0,
                            full |-> FALSE, seen |-> {}], c, linked, fetch, 1)
        marked == MarkOrphans(res.S, c, res.seen)
        rq     == [Resp("sync", u, st) EXCEPT !.coll = c]
    IN IF st # 200 \/ linked = <<>>
       THEN /\ resp' = rq
            /\ UNCHANGED <<colls, songs, bg, v2db, v3aux>>
       ELSE /\ ~res.full
            /\ songs' = marked
            /\ colls' = [colls EXCEPT ![c].song_count = NonOrphanedCount(marked, c)]
            /\ bg' = IF res.created > 0 THEN bg \cup {c} ELSE bg
            /\ resp' = [rq EXCEPT
                   !.seen = res.seen,
                   !.present = UNION {Range(fetch[p].tracks) : p \in LinkedIds(c)}
                                  \ {NoTrackId}]
            /\ UNCHANGED <<v2db, v3aux>>

\* SongsService.remove_playlist_from_song: the document afterwards (deleted
\* when no playlist references it any more)
RemovePlaylistFromSong(doc, p) ==
    LET src == doc.source_playlist_ids \ {p}
    IN IF src = {} THEN NoSong
       ELSE [doc EXCEPT !.source_playlist_ids = src]

\* SongsService.delete_songs_for_playlist
DeleteSongsForPlaylist(S, c, p) ==
    [i \in SongIds |->
        IF i \in SongsOf(S, c) /\ p \in S[i].source_playlist_ids
        THEN RemovePlaylistFromSong(S[i], p)
        ELSE S[i]]

\* a check that lets everyone who can read the collection through
OwnerStatusReaders(u, c) ==
    IF ~GetCollection(c, u) THEN 404 ELSE 200

\* the checks of unlink_playlist and reorder_playlists: the collection must
\* be readable by the user and owned by the user
OwnerStatus(u, c) ==
    IF ~GetCollection(c, u) THEN 404
    ELSE IF colls[c].owner_uid # u THEN 403
    ELSE 200

\* POST /api/v3/collections/<collection_id>/unlink-playlist
UnlinkPlaylist(u, c, p) ==
    LET st     == IF p = NoId THEN 400 ELSE OwnerStatus(u, c)
        linked == colls[c].linked_playlists
        after  == DeleteSongsForPlaylist(songs, c, p)
        rq     == [Resp("unlink", u, st) EXCEPT !.coll = c, !.pid = p,
                                                 !.malformed = (p = NoId)]
    IN IF st # 200
       THEN /\ resp' = rq
            /\ UNCHANGED <<colls, songs, bg, v2db, v3aux>>
       ELSE /\ songs' = after
            /\ colls' = [colls EXCEPT ![c] =
                   [@ EXCEPT
                      !.linked_playlists =
                          UpdatedPlaylists(linked, p, 1),
                      !.song_count = Cardinality(SongsOf(after, c))]]
            /\ resp' = rq
            /\ UNCHANGED <<bg, v2db, v3aux>>

\* playlist_map of reorder_playlists: for a linked playlist id, its last entry
PlaylistMap(linked, p) ==
    linked[Max({i \in DOMAIN linked : linked[i].playlist_id = p})]

RECURSIVE Reordered(_, _, _)
Reordered(linked, ids, i) ==
    IF i > Len(ids) THEN <<>>
    ELSE (IF \E k \in DOMAIN linked : linked[k].playlist_id = ids[i]
          THEN <<PlaylistMap(linked, ids[i])>> ELSE <<>>)
         \o Reordered(linked, ids, i + 1)

\* POST /api/v3/collections/<collection_id>/reorder-playlists
ReorderPlaylists(u, c, ids) ==
    LET st == IF ids = <<>> THEN 400 ELSE OwnerStatus(u, c)
        rq == [Resp("reorder", u, st) EXCEPT !.coll = c,
                                             !.malformed = (ids = <<>>)]
    IN IF st # 200
       THEN /\ resp' = rq
            /\ UNCHANGED <<colls, songs, bg, v2db, v3aux>>
       ELSE /\ colls' = [colls EXCEPT ![c].linked_playlists =
                            Reordered(colls[c].linked_playlists, ids, 1)]
            /\ resp' = rq
            /\ UNCHANGED <<songs, bg, v2db, v3aux>>

\* ------------------------------------------------------------------ song endpoints
\* the checks song() makes before it looks at the method
SongAccessStatus(u, s) ==
    IF ~songs[s].exists THEN 404
    ELSE IF ~GetCollection(songs[s].collection_id, u) THEN 403
    ELSE 200

\* DELETE /api/v3/songs/<song_id>
DeleteSong(u, s) ==
    LET c     == songs[s].collection_id
        st    == IF SongAccessStatus(u, s) # 200 THEN SongAccessStatus(u, s)
                 ELSE IF CheckUserAccessLevel(c, u) # "owner" THEN 403
                 ELSE IF ~songs[s].is_orphaned THEN 400
                 ELSE 200
        after == [songs EXCEPT ![s] = NoSong]
        rq    == [Resp("delete_song", u, st) EXCEPT !.coll = c, !.song = s]
    IN IF st # 200
       THEN /\ resp' = rq
            /\ UNCHANGED <<colls, songs, bg, v2db, v3aux>>
       ELSE /\ songs' = after
            /\ colls' = [colls EXCEPT ![c].song_count = NonOrphanedCount(after, c)]
            /\ resp' = rq
            /\ UNCHANGED <<bg, v2db, v3aux>>

\* update_data of the PUT branch of song(): the allowed fields the body has
\* (a body is [has: the fields present, lyrics, custom_lyrics, notes, bpm])
PutUpdate(doc, body) ==
    [doc EXCEPT
       !.lyrics        = IF "lyrics" \in body.has THEN body.lyrics ELSE @,
       !.custom_lyrics = IF "custom_lyrics" \in body.has THEN body.custom_lyrics ELSE @,
       !.notes         = IF "notes" \in body.has THEN body.notes ELSE @,
       !.bpm           = IF "bpm" \in body.has THEN body.bpm ELSE @]

\* PUT /api/v3/songs/<song_id>
PutSong(u, s, body) ==
    LET c  == songs[s].collection_id
        st == IF SongAccessStatus(u, s) # 200 THEN SongAccessStatus(u, s)
              ELSE IF CheckUserAccessLevel(c, u) \notin {"owner", "collaborator"} THEN 403
              ELSE IF body.has \cap {"lyrics", "custom_lyrics", "notes", "bpm"} = {} THEN 400
              ELSE 200
        rq == [Resp("put_song", u, st) EXCEPT !.coll = c, !.song = s]
    IN /\ resp' = rq
       /\ songs' = IF st = 200 THEN [songs EXCEPT ![s] = PutUpdate(@, body)] ELSE songs
       /\ UNCHANGED <<colls, bg, v2db, v3aux>>

\* ------------------------------------------------------------------ lyrics service
\* LyricsServiceV3.fetch_lyrics: what Genius gives ("ok", "NOT_FOUND",
\* "SCRAPE_FAILED", or "EXC" for an exception in the lookup)
FetchLyrics(genius) ==
    IF genius = "ok" THEN [lyrics |-> "genius", error |-> "none"]
    ELSE [lyrics |-> "", error |-> genius]

\* LyricsServiceV3.fetch_and_update_song_lyrics: the document afterwards and
\* the value returned
FetchAndUpdateSongLyrics(doc, force, force_customized, genius) ==
    IF ~doc.exists THEN [doc |-> doc, ok |-> FALSE]
    ELSE IF doc.is_customized /\ ~force_customized THEN [doc |-> doc, ok |-> FALSE]
    ELSE IF doc.lyrics_fetched /\ ~force THEN [doc |-> doc, ok |-> TRUE]
    ELSE [doc |-> [doc EXCEPT
                     !.lyrics = FetchLyrics(genius).lyrics,
                     !.lyrics_fetched = TRUE,
                     !.lyrics_fetch_error = FetchLyrics(genius).error,
                     !.is_customized = IF force_customized THEN FALSE ELSE @],
          ok |-> TRUE]

\* POST /api/v3/songs/<song_id>/fetch-lyrics
FetchSongLyrics(u, s, force_customized, genius) ==
    LET c   == songs[s].collection_id
        res == FetchAndUpdateSongLyrics(songs[s], TRUE, force_customized, genius)
        st  == IF ~songs[s].exists THEN 404
               ELSE IF ~GetCollection(c, u) THEN 404
               ELSE IF colls[c].owner_uid # u THEN 403
               ELSE IF res.ok THEN 200 ELSE 400
        rq  == [Resp("fetch_lyrics", u, st) EXCEPT !.coll = c, !.song = s,
                                                   !.force = force_customized]
    IN /\ resp' = rq
       /\ songs' = IF st = 200 THEN [songs EXCEPT ![s] = res.doc] ELSE songs
       /\ UNCHANGED <<colls, bg, v2db, v3aux>>

\* one iteration of batch_fetch_lyrics_for_collection in the background
\* thread: a song of the collection with lyrics_fetched == False that is not
\* customized gets fetch_and_update_song_lyrics(song_id)
BgFetchLyrics(c, s, genius) ==
    /\ c \in bg
    /\ s \in SongsOf(songs, c)
    /\ ~songs[s].lyrics_fetched
    /\ ~songs[s].is_customized
    /\ songs' = [songs EXCEPT ![s] =
                    FetchAndUpdateSongLyrics(@, FALSE, FALSE, genius).doc]
    /\ resp' = [Resp("bg_lyrics", NoId, 0) EXCEPT !.coll = c, !.song = s]
    /\ UNCHANGED <<colls, bg, v2db, v3aux>>

\* LyricsServiceV3.fetch_and_update_song_bpm; found is what _fetch_bpm
\* returns: a tempo ("fetched"), "NOT_FOUND" or "N/A"
FetchAndUpdateSongBpm(doc, found) ==
    IF ~doc.exists THEN doc
    ELSE IF doc.bpm \notin {"N/A", "NOT_FOUND"} THEN doc
    ELSE IF doc.bpm = "NOT_FOUND" THEN doc
    ELSE [doc EXCEPT !.bpm = found]

\* one iteration of batch_fetch_bpm_for_collection in the background thread
BgFetchBpm(c, s, found) ==
    /\ c \in bg
    /\ s \in SongsOf(songs, c)
    /\ songs[s].bpm \in {"N/A", "NOT_FOUND"}
    /\ songs[s].bpm # "NOT_FOUND"
    /\ songs' = [songs EXCEPT ![s] = FetchAndUpdateSongBpm(@, found)]
    /\ resp' = [Resp("bg_bpm", NoId, 0) EXCEPT !.coll = c, !.song = s]
    /\ UNCHANGED <<colls, bg, v2db, v3aux>>

\* the background thread returns
BgDone(c) ==
    /\ c \in bg
    /\ bg' = bg \ {c}
    /\ resp' = [Resp("bg_done", NoId, 0) EXCEPT !.coll = c]
    /\ UNCHANGED <<colls, songs, v2db, v3aux>>

\* ------------------------------------------------------------------ collections
\* CollectionsService.update_collection behind PUT /api/v3/collections/<id>
\* (a body is [has: the fields present, name, is_public, collaborators])
UpdateCollection(u, c, body) ==
    LET st == IF ~colls[c].exists THEN 400
              ELSE IF colls[c].owner_uid # u THEN 403
              ELSE IF colls[c].is_personal
                      /\ body.has \cap {"name", "is_personal"} # {} THEN 400
              ELSE 200
        rq == [Resp("update_collection", u, st) EXCEPT !.coll = c]
    IN /\ resp' = rq
       /\ colls' = IF st # 200 THEN colls
                   ELSE [colls EXCEPT ![c] =
                      [@ EXCEPT
                         !.name = IF "name" \in body.has THEN body.name ELSE @,
                         !.is_public =
                             IF "is_public" \in body.has THEN body.is_public ELSE @,
                         !.collaborators =
                             IF "collaborators" \in body.has
                             THEN body.collaborators ELSE @]]
       /\ UNCHANGED <<songs, bg, v2db, v3aux>>

\* a cascade that deletes nothing
DeleteSongsInCollectionNone(S, c) == S

\* SongsService.delete_songs_in_collection
DeleteSongsInCollection(S, c) ==
    [i \in SongIds |-> IF i \in SongsOf(S, c) THEN NoSong ELSE S[i]]

\* a delete that any owner request passes, Personal Collection or not
DeleteCollectionUnguarded(u, c) ==
    LET st == IF ~colls[c].exists THEN 400
              ELSE IF colls[c].owner_uid # u THEN 403
              ELSE 200
    IN /\ resp' = [Resp("delete_collection", u, st) EXCEPT
                      !.coll = c,
                      !.deleted = IF st = 200
                                  THEN Cardinality(SongsOf(songs, c)) ELSE 0]
       /\ songs' = IF st = 200 THEN DeleteSongsInCollection(songs, c) ELSE songs
       /\ colls' = IF st = 200 THEN [colls EXCEPT ![c] = NoColl] ELSE colls
       /\ UNCHANGED <<bg, v2db, v3aux>>

\* CollectionsService.delete_collection behind DELETE /api/v3/collections/<id>
DeleteCollection(u, c) ==
    LET st == IF ~colls[c].exists THEN 400
              ELSE IF colls[c].owner_uid # u THEN 403
              ELSE IF colls[c].is_personal THEN 400
              ELSE 200
        rq == [Resp("delete_collection", u, st) EXCEPT
                  !.coll = c,
                  !.deleted = IF st = 200
                              THEN Cardinality(SongsOf(songs, c)) ELSE 0]
    IN /\ resp' = rq
       /\ songs' = IF st = 200 THEN DeleteSongsInCollection(songs, c) ELSE songs
       /\ colls' = IF st = 200 THEN [colls EXCEPT ![c] = NoColl] ELSE colls
       /\ UNCHANGED <<bg, v2db, v3aux>>

\* the Personal Collections a user owns
PersonalOf(u) ==
    {c \in CollIds : colls[c].exists /\ colls[c].owner_uid = u
                       /\ colls[c].is_personal}

\* CollectionsService.get_or_create_personal_collection behind
\* GET /api/v3/collections; c is the id Firestore gives a new document
GetOrCreatePersonalCollection(u, c) ==
    /\ PersonalOf(u) # {} \/ ~colls[c].exists
    /\ colls' = IF PersonalOf(u) # {} THEN colls
                ELSE [colls EXCEPT ![c] =
                        [NoColl EXCEPT !.exists = TRUE, !.owner_uid = u,
                                       !.name = "Personal Collection",
                                       !.is_personal = TRUE]]
    /\ resp' = [Resp("personal", u, 200) EXCEPT
                   !.coll = IF PersonalOf(u) # {} THEN CHOOSE x \in PersonalOf(u) : TRUE
                            ELSE c]
    /\ UNCHANGED <<songs, bg, v2db, v3aux>>

\* CollectionsService.request_collaboration behind
\* POST /api/v3/collections/<id>/request-access
RequestCollaboration(u, c) ==
    LET st == IF ~colls[c].exists THEN 400
              ELSE IF ~colls[c].is_public THEN 400
              ELSE IF colls[c].owner_uid = u THEN 400
              ELSE IF u \in colls[c].collaborators THEN 400
              ELSE IF u \in colls[c].collaboration_requests THEN 400
              ELSE 200
    IN /\ resp' = [Resp("request_access", u, st) EXCEPT !.coll = c]
       /\ colls' = IF st # 200 THEN colls
                   ELSE [colls EXCEPT ![c].collaboration_requests = @ \cup {u}]
       /\ UNCHANGED <<songs, bg, v2db, v3aux>>

\* an accept that does not look at who asks
AcceptStatusAnyone(u, c, r) ==
    IF r = NoId THEN 400
    ELSE IF ~colls[c].exists THEN 400
    ELSE IF r \notin colls[c].collaboration_requests THEN 400
    ELSE 200

\* the status accept_collaborator / deny_collaborator answer with
AcceptStatus(u, c, r) ==
    IF r = NoId THEN 400
    ELSE IF ~colls[c].exists THEN 400
    ELSE IF colls[c].owner_uid # u THEN 403
    ELSE IF r \notin colls[c].collaboration_requests THEN 400
    ELSE 200

\* CollectionsService.accept_collaboration_request behind
\* POST /api/v3/collections/<id>/accept-collaborator
AcceptCollaborator(u, c, r) ==
    LET st == AcceptStatus(u, c, r)
    IN /\ resp' = [Resp("accept", u, st) EXCEPT !.coll = c]
       /\ colls' = IF st # 200 THEN colls
                   ELSE [colls EXCEPT ![c] =
                           [@ EXCEPT !.collaborators = @ \cup {r},
                                     !.collaboration_requests = @ \ {r}]]
       /\ UNCHANGED <<songs, bg, v2db, v3aux>>

\* CollectionsService.deny_collaboration_request behind
\* POST /api/v3/collections/<id>/deny-collaborator
DenyCollaborator(u, c, r) ==
    LET st == AcceptStatus(u, c, r)
    IN /\ resp' = [Resp("deny", u, st) EXCEPT !.coll = c]
       /\ colls' = IF st # 200 THEN colls
                   ELSE [colls EXCEPT ![c].collaboration_requests = @ \ {r}]
       /\ UNCHANGED <<songs, bg, v2db, v3aux>>

\* ------------------------------------------------------------------ webapp_v2
\* LyricsService._create_song_id: collection_id__spotify_track_id
CreateSongId(t, c) == <<c, t>>

SongIds2 == {CreateSongId(t, c) : c \in CollIds, t \in Tracks}

NoColl2 ==
    [exists |-> FALSE, user_id |-> NoId, name |-> "", is_shared |-> FALSE,
     collaborators |-> {}, playlist_ids |-> <<>>]

NoSong2 ==
    [exists |-> FALSE, collection_id |-> NoId, lyrics |-> "",
     lyrics_fetched |-> FALSE, is_customized |-> FALSE, notes |-> "",
     bpm |-> "N/A", bpm_manual |-> FALSE, source_playlist_ids |-> {},
     is_removed_from_spotify |-> FALSE]

\* FirestoreService.is_collection_owner / can_admin_collection
CanAdminCollection(c, u) ==
    c \in CollIds /\ colls2[c].exists /\ colls2[c].user_id = u

\* FirestoreService.can_write_collection: the owner, or a collaborator of a
\* shared collection
CanWriteCollection(c, u) ==
    /\ c \in CollIds /\ colls2[c].exists
    /\ \/ colls2[c].user_id = u
       \/ colls2[c].is_shared /\ u \in colls2[c].collaborators

\* check_song_permission(song_id, user_email, 'write')
CheckSongPermission(sid, u) ==
    /\ songs2[sid].exists
    /\ songs2[sid].collection_id # NoId
    /\ CanWriteCollection(songs2[sid].collection_id, u)

Resp2(op, u, st, sid) ==
    [Resp(op, u, st) EXCEPT !.coll = songs2[sid].collection_id, !.track = sid[2]]

\* POST /api/collections (webapp_v2)
CreateCollection2(u, c, name) ==
    /\ ~colls2[c].exists
    /\ IF name = ""
       THEN /\ resp' = Resp("v2_create_collection", u, 400)
            /\ UNCHANGED colls2
       ELSE /\ colls2' = [colls2 EXCEPT ![c] =
                   [NoColl2 EXCEPT !.exists = TRUE, !.user_id = u, !.name = name]]
            /\ resp' = [Resp("v2_create_collection", u, 200) EXCEPT !.coll = c]
    /\ UNCHANGED <<songs2, v2aux, v3db>>

\* PUT /api/collections/<collection_id> (webapp_v2); a body is
\* [has: the fields present, name, is_shared, collaborators]
UpdateCollection2(u, c, body) ==
    LET shared  == "is_shared" \in body.has /\ body.is_shared
        collabs == "collaborators" \in body.has
        st == IF ~colls2[c].exists THEN 404
              ELSE IF ~CanAdminCollection(c, u) THEN 403
              ELSE IF colls2[c].name = "Default" /\ shared THEN 400
              ELSE IF collabs /\ u \in body.collaborators THEN 400
              ELSE 200
    IN /\ resp' = [Resp("v2_update_collection", u, st) EXCEPT !.coll = c]
       /\ colls2' = IF st # 200 THEN colls2
                    ELSE [colls2 EXCEPT ![c] =
                       [@ EXCEPT
                          !.name = IF "name" \in body.has THEN body.name ELSE @,
                          !.is_shared =
                              IF "is_shared" \in body.has THEN body.is_shared ELSE @,
                          !.collaborators =
                              IF collabs THEN body.collaborators ELSE @]]
       /\ UNCHANGED <<songs2, v2aux, v3db>>

\* the collections named 'Default' a webapp_v2 user owns
DefaultOf(u) ==
    {c \in CollIds : colls2[c].exists /\ colls2[c].user_id = u
                       /\ colls2[c].name = "Default"}

\* FirestoreService.get_or_create_default_collection behind
\* GET /api/collections/default; c is the id Firestore gives a new document
GetOrCreateDefaultCollection2(u, c) ==
    /\ DefaultOf(u) # {} \/ ~colls2[c].exists
    /\ colls2' = IF DefaultOf(u) # {} THEN colls2
                 ELSE [colls2 EXCEPT ![c] =
                         [NoColl2 EXCEPT !.exists = TRUE, !.user_id = u,
                                         !.name = "Default"]]
    /\ resp' = [Resp("v2_default", u, 200) EXCEPT
                   !.coll = IF DefaultOf(u) # {}
                            THEN CHOOSE x \in DefaultOf(u) : TRUE ELSE c]
    /\ UNCHANGED <<songs2, v2aux, v3db>>

\* FirestoreService.get_songs_by_collection
SongsByCollection2(S, c) ==
    {sid \in DOMAIN S : S[sid].exists /\ S[sid].collection_id = c}

\* FirestoreService.delete_collection: the songs afterwards
DeleteSongsOfCollection2(S, c) ==
    [sid \in DOMAIN S |->
        IF sid \in SongsByCollection2(S, c)
        THEN NoSong2
        ELSE S[sid]]

\* DELETE /api/collections/<collection_id> (webapp_v2)
DeleteCollection2(u, c) ==
    LET st == IF ~colls2[c].exists THEN 404
              ELSE IF ~CanAdminCollection(c, u) THEN 403
              ELSE IF colls2[c].name = "Default" THEN 400
              ELSE 200
    IN /\ resp' = [Resp("v2_delete_collection", u, st) EXCEPT
                      !.coll = c,
                      !.deleted =
                          IF st = 200
                          THEN Cardinality(SongsByCollection2(songs2, c)) ELSE 0]
       /\ songs2' = IF st = 200 THEN DeleteSongsOfCollection2(songs2, c)
                    ELSE songs2
       /\ colls2' = IF st = 200 THEN [colls2 EXCEPT ![c] = NoColl2] ELSE colls2
       /\ UNCHANGED <<v2aux, v3db>>

\* PUT /api/songs/<song_id>/notes
UpdateNotes(u, sid, notes) ==
    LET st == IF ~CheckSongPermission(sid, u) THEN 403 ELSE 200
    IN /\ resp' = Resp2("v2_update_notes", u, st, sid)
       /\ songs2' = IF st = 200 THEN [songs2 EXCEPT ![sid].notes = notes]
                    ELSE songs2
       /\ UNCHANGED <<colls2, v2aux, v3db>>

\* PUT /api/songs/<song_id>/lyrics: the lyrics are stored and the song is
\* marked customized
UpdateLyrics(u, sid, lyrics) ==
    LET st == IF ~CheckSongPermission(sid, u) THEN 403 ELSE 200
    IN /\ resp' = Resp2("v2_update_lyrics", u, st, sid)
       /\ songs2' = IF st = 200
                    THEN [songs2 EXCEPT ![sid].lyrics = lyrics,
                                        ![sid].is_customized = TRUE]
                    ELSE songs2
       /\ UNCHANGED <<colls2, v2aux, v3db>>

\* the values update_bpm accepts: 'N/A', 'NOT_FOUND' or a number in (0, 300]
ValidBpm(b) == b \in {"N/A", "NOT_FOUND", "120"}

\* PUT /api/songs/<song_id>/bpm; b = "none" is a body without bpm
UpdateBpm(u, sid, b) ==
    LET st == IF b = "none" THEN 400
              ELSE IF ~CheckSongPermission(sid, u) THEN 403
              ELSE IF ~ValidBpm(b) THEN 400
              ELSE 200
    IN /\ resp' = Resp2("v2_update_bpm", u, st, sid)
       /\ songs2' = IF st = 200
                    THEN [songs2 EXCEPT ![sid].bpm = b, ![sid].bpm_manual = TRUE]
                    ELSE songs2
       /\ UNCHANGED <<colls2, v2aux, v3db>>

\* LyricsService.fetch_and_update_bpm (webapp_v2); found is what _fetch_bpm
\* returns
FetchAndUpdateBpm(doc, found) ==
    IF doc.bpm = "NOT_FOUND" THEN doc
    ELSE [doc EXCEPT !.bpm = IF found = "N/A" THEN "NOT_FOUND" ELSE found,
                     !.bpm_manual = FALSE]

\* POST /api/songs/<song_id>/bpm
FetchBpm(u, sid, found) ==
    LET st == IF ~CheckSongPermission(sid, u) THEN 403 ELSE 200
    IN /\ resp' = Resp2("v2_fetch_bpm", u, st, sid)
       /\ songs2' = IF st = 200
                    THEN [songs2 EXCEPT ![sid] = FetchAndUpdateBpm(@, found)]
                    ELSE songs2
       /\ UNCHANGED <<colls2, v2aux, v3db>>

\* LyricsService._fetch_lyrics (webapp_v2): the lyrics, or a sentence saying
\* why there are none
FetchLyrics2(genius) ==
    IF genius = "ok" THEN "genius"
    ELSE IF genius = "NOT_FOUND" THEN "Lyrics not found"
    ELSE IF genius = "SCRAPE_FAILED" THEN "Could not retrieve lyrics"
    ELSE "Error fetching lyrics"

\* LyricsService.fetch_and_update_song
FetchAndUpdateSong(doc, genius, clear_customization) ==
    [doc EXCEPT !.lyrics = FetchLyrics2(genius),
                !.lyrics_fetched = TRUE,
                !.is_customized = IF clear_customization THEN FALSE ELSE @]

\* a refresh that does not look at is_customized
RefreshBlockedNever(doc, force_overwrite) == FALSE

\* refresh_song answers requires_confirmation and changes nothing
RefreshBlocked(doc, force_overwrite) == doc.is_customized /\ ~force_overwrite

\* POST /api/songs/<song_id>/refresh
RefreshSong(u, sid, force_overwrite, genius) ==
    LET st == IF ~songs2[sid].exists THEN 404 ELSE 200
    IN /\ resp' = [Resp2("v2_refresh", u, st, sid) EXCEPT !.force = force_overwrite]
       /\ songs2' = IF st = 200 /\ ~RefreshBlocked(songs2[sid], force_overwrite)
                    THEN [songs2 EXCEPT ![sid] = FetchAndUpdateSong(@, genius, TRUE)]
                    ELSE songs2
       /\ UNCHANGED <<colls2, v2aux, v3db>>

\* what import_selected_songs_stream writes for one selected track: nothing
\* when the song exists and is customized or has notes, else the imported
\* fields merged into the document
ImportOne(doc, c, p) ==
    IF doc.exists /\ (doc.is_customized \/ doc.notes # "") THEN doc
    ELSE [doc EXCEPT !.exists = TRUE, !.collection_id = c, !.lyrics = "",
                     !.lyrics_fetched = FALSE, !.bpm = "N/A",
                     !.source_playlist_ids = {p}]

\* POST /api/playlist/import (webapp_v2): the selected songs of the playlist
\* are imported into the collection; a failed Spotify call ends the stream
\* with an error and nothing written
ImportSelectedSongs(u, c, url, selected, content, ok) ==
    LET st == IF url = "" \/ selected = {} THEN 400 ELSE 200
    IN /\ resp' = [Resp("v2_import", u, st) EXCEPT !.coll = c, !.pid = url,
                       !.tracks = GetPlaylistTracks(content, ok)]
       /\ songs2' =
             IF st = 200 /\ ok
             THEN [sid \in SongIds2 |->
                     IF sid \in selected /\ sid[1] = c /\ sid[2] \in Range(content)
                     THEN ImportOne(songs2[sid], c, url)
                     ELSE songs2[sid]]
             ELSE songs2
       /\ UNCHANGED <<colls2, v2aux, v3db>>

\* ------------------------------------------------------------------ webapp_v2 sync
\* POST /api/collections/<collection_id>/playlists/link: the playlist gets a
\* playlist-memory entry and is appended to playlist_ids when absent
LinkPlaylist2(u, c, url, infoOk) ==
    LET st == IF url = "" THEN 400
              ELSE IF ~colls2[c].exists THEN 404
              ELSE IF colls2[c].user_id # u THEN 403
              ELSE IF ~infoOk THEN 500
              ELSE 200
    IN /\ resp' = [Resp("v2_link", u, st) EXCEPT !.coll = c, !.pid = url]
       /\ memory2' = IF st = 200 THEN memory2 \cup {url} ELSE memory2
       /\ colls2' = IF st = 200
                    THEN [colls2 EXCEPT ![c].playlist_ids = ArrayUnion(@, url)]
                    ELSE colls2
       /\ UNCHANGED <<songs2, oauth2, v3db>>

\* DELETE /api/playlist/memory/<playlist_id>
DeletePlaylistMemory2(u, p) ==
    /\ resp' = [Resp("v2_delete_memory", u, 200) EXCEPT !.pid = p]
    /\ memory2' = memory2 \ {p}
    /\ UNCHANGED <<colls2, songs2, oauth2, v3db>>

\* existing_songs of sync_collection_playlists: the songs of the collection
\* when the sync starts
ExistingSongs2(S, c) == SongsByCollection2(S, c)

\* the document sync_collection_playlists writes for a track it takes to be
\* new: create_or_update_song merges song_data into what is stored
SyncNewSong2(doc, c, p) ==
    [doc EXCEPT !.exists = TRUE, !.collection_id = c, !.lyrics = "",
                !.lyrics_fetched = FALSE, !.bpm = "N/A", !.notes = "",
                !.source_playlist_ids = {p}]

RECURSIVE SyncTracks2(_, _, _, _, _, _)
\* the loop of sync_collection_playlists over the tracks of one playlist; S0
\* is the state when the sync started, acc what has been written so far
SyncTracks2(S0, acc, c, p, tracks, i) ==
    IF i > Len(tracks) THEN acc
    ELSE
      LET t   == tracks[i]
          sid == CreateSongId(t, c)
          a1  == [acc EXCEPT !.seen = @ \cup {t}]
      IN IF sid \in ExistingSongs2(S0, c)
         THEN SyncTracks2(S0,
                  [a1 EXCEPT !.S[sid].source_playlist_ids = @ \cup {p},
                             !.updated = @ \cup {sid}],
                  c, p, tracks, i + 1)
         ELSE SyncTracks2(S0,
                  [a1 EXCEPT !.S[sid] = SyncNewSong2(@, c, p),
                             !.new = @ \cup {sid}],
                  c, p, tracks, i + 1)

RECURSIVE SyncLoop2(_, _, _, _, _, _, _)
\* the loop of sync_collection_playlists over playlist_ids: a playlist
\* without a playlist-memory entry, or whose Spotify fetch raises, is skipped
SyncLoop2(S0, acc, c, ids, fetch, mem, i) ==
    IF i > Len(ids) THEN acc
    ELSE
      LET p == ids[i]
      IN IF p \notin mem \/ ~fetch[p].ok
         THEN SyncLoop2(S0, acc, c, ids, fetch, mem, i + 1)
         ELSE SyncLoop2(S0, SyncTracks2(S0, acc, c, p, fetch[p].tracks, 1),
                        c, ids, fetch, mem, i + 1)

\* the last pass of sync_collection_playlists: every song of existing_songs
\* whose track is in none of the fetched lists is flagged
MarkRemoved2(S0, S, c, seen) ==
    [sid \in DOMAIN S |->
        IF sid \in ExistingSongs2(S0, c) /\ sid[2] \notin seen
        THEN [S[sid] EXCEPT !.is_removed_from_spotify = TRUE]
        ELSE S[sid]]

\* LyricsService.sync_collection_playlists: the songs afterwards, the songs
\* counted as new, updated and removed, and the track ids seen
SyncCollectionPlaylists(S, c, ids, fetch, mem) ==
    LET res == SyncLoop2(S, [S |-> S, new |-> {}, updated |-> {}, seen |-> {}],
                         c, ids, fetch, mem, 1)
    IN IF ids = <<>>
       THEN [S |-> S, new |-> {}, updated |-> {}, removed |-> {}, seen |-> {}]
       ELSE [S       |-> MarkRemoved2(S, res.S, c, res.seen),
             new     |-> res.new,
             updated |-> res.updated,
             removed |-> {sid \in ExistingSongs2(S, c) : sid[2] \notin res.seen},
             seen    |-> res.seen]

\* the <<playlist, track>> pairs of the track lists a sync gets: those of the
\* linked playlists it does not skip
FetchedPairs2(ids, fetch, mem) ==
    {<<p, t>> : p \in {q \in Range(ids) \cap mem : fetch[q].ok}, t \in Tracks}
        \cap {<<p, t>> \in Playlists \X Tracks : t \in Range(fetch[p].tracks)}

\* POST /api/collections/<collection_id>/sync (webapp_v2)
SyncCollection2(u, c, fetch) ==
    LET st  == IF ~colls2[c].exists THEN 404
               ELSE IF ~CanWriteCollection(c, u) THEN 403
               ELSE 200
        ids == colls2[c].playlist_ids
        res == SyncCollectionPlaylists(songs2, c, ids, fetch, memory2)
    IN /\ resp' = [Resp("v2_sync", u, st) EXCEPT
                      !.coll = c,
                      !.seen = IF st = 200 THEN res.seen ELSE {},
                      !.fetched = IF st = 200
                                  THEN FetchedPairs2(ids, fetch, memory2)
                                  ELSE {},
                      !.present = IF st = 200
                                  THEN UNION {Range(fetch[p].tracks) :
                                                 p \in Range(ids)}
                                  ELSE {}]
       /\ songs2' = IF st = 200 THEN res.S ELSE songs2
       /\ UNCHANGED <<colls2, v2aux, v3db>>

\* ------------------------------------------------------------------ webapp_v2 OAuth state
\* the state tokens secrets.token_urlsafe can give
Tokens == {"s1", "s2"}

\* the requests that run handle_callback at the same time
Verifiers == {"v1", "v2"}

\* the instants at which requests are served, in seconds
ClockValues == {0, 3599, 3600, 3601}

\* verify_oauth_state accepts a state token younger than this, in seconds
Lifetime == 3600

NoState == [exists |-> FALSE, user_id |-> NoId, created_at |-> 0]

\* oauth_states and spotify_tokens are empty, the clock is at 0 and no
\* callback is running; issued holds the tokens given out so far and returned
\* counts, per token, the verifications that returned its user.  The document
\* of a deleted state keeps user_id and created_at, with exists = FALSE.
NoOAuth ==
    [states         |-> [k \in Tokens |-> NoState],
     spotify_tokens |-> {},
     clock          |-> 0,
     pc             |-> [v \in Verifiers |-> "idle"],
     token          |-> [v \in Verifiers |-> NoId],
     doc            |-> [v \in Verifiers |-> NoState],
     issued         |-> {},
     returned       |-> [k \in Tokens |-> 0]]

\* time passes between two requests
Tick(t) ==
    /\ t > oauth2.clock
    /\ oauth2' = [oauth2 EXCEPT !.clock = t]
    /\ resp' = Resp("tick", NoId, 0)
    /\ UNCHANGED <<colls2, songs2, memory2, v3db>>

\* FirestoreService.save_oauth_state
SaveOAuthState(states, u, k, now) ==
    [states EXCEPT ![k] = [exists |-> TRUE, user_id |-> u, created_at |-> now]]

\* SpotifyAuthService.get_auth_url: a new random state token k is saved for
\* the user
GetAuthUrl(u, k) ==
    /\ k \notin oauth2.issued
    /\ oauth2' = [oauth2 EXCEPT
                     !.states = SaveOAuthState(@, u, k, oauth2.clock),
                     !.issued = @ \cup {k}]
    /\ resp' = [Resp("v2_auth_url", u, 200) EXCEPT !.pid = k]
    /\ UNCHANGED <<colls2, songs2, memory2, v3db>>

\* verify_oauth_state, first half: doc = doc_ref.get()
VerifyGet(v, k) ==
    /\ oauth2.pc[v] = "idle"
    /\ oauth2' = [oauth2 EXCEPT !.pc[v] = "got", !.token[v] = k,
                                !.doc[v] = oauth2.states[k]]
    /\ resp' = [Resp("v2_verify_get", NoId, 0) EXCEPT !.pid = k]
    /\ UNCHANGED <<colls2, songs2, memory2, v3db>>

\* verify_oauth_state, the value returned for the document read: its user
\* when the document exists and is younger than Lifetime, else None
VerifyOAuthState(doc, now) ==
    IF doc.exists /\ now - doc.created_at < Lifetime THEN doc.user_id ELSE NoId

\* verify_oauth_state, second half, and the rest of handle_callback: the
\* document read is deleted when it existed, the user is returned when the
\* token is young enough, and the Spotify token is saved for that user when
\* the code exchange succeeds
VerifyFinish(v, exchanged) ==
    LET k    == oauth2.token[v]
        doc  == oauth2.doc[v]
        user == VerifyOAuthState(doc, oauth2.clock)
    IN /\ oauth2.pc[v] = "got"
       /\ oauth2' = [oauth2 EXCEPT
                        !.pc[v] = "idle", !.token[v] = NoId, !.doc[v] = NoState,
                        !.states[k].exists = IF doc.exists THEN FALSE ELSE @,
                        !.returned[k] = IF user # NoId THEN @ + 1 ELSE @,
                        !.spotify_tokens = IF user # NoId /\ exchanged
                                           THEN @ \cup {user} ELSE @]
       /\ resp' = [Resp("v2_verify", user, IF user # NoId /\ exchanged
                                             THEN 200 ELSE 400)
                      EXCEPT !.pid = k]
       /\ UNCHANGED <<colls2, songs2, memory2, v3db>>

\* ------------------------------------------------------------------ webapp_v3 requests in flight
\* the GET /api/v3/collections requests served at the same time
Callers == {"r1", "r2"}

\* the Spotify accounts an authorization code can stand for
Accounts == {"a1", "a2"}

\* no request is running, spotify_tokens_v3 is empty and no auth URL was
\* handed out
NoAux3 ==
    [pc             |-> [r \in Callers |-> "idle"],
     uid            |-> [r \in Callers |-> NoId],
     spotify_tokens |-> [u \in Users |-> NoId],
     handed         |-> {}]

\* get_or_create_personal_collection, first half: the query for the user's
\* Personal Collection; the request returns the collection when there is one
PersonalQuery(r, u) ==
    /\ v3aux.pc[r] = "idle"
    /\ IF PersonalOf(u) # {}
       THEN /\ resp' = [Resp("personal", u, 200) EXCEPT
                          !.coll = CHOOSE x \in PersonalOf(u) : TRUE]
            /\ UNCHANGED v3aux
       ELSE /\ resp' = Resp("personal_query", u, 0)
            /\ v3aux' = [v3aux EXCEPT !.pc[r] = "create", !.uid[r] = u]
    /\ UNCHANGED <<colls, songs, bg, v2db>>

\* get_or_create_personal_collection, second half: the query found nothing,
\* the Personal Collection is created under a new document id c
PersonalCreate(r, c) ==
    /\ v3aux.pc[r] = "create"
    /\ ~colls[c].exists
    /\ colls' = [colls EXCEPT ![c] =
                    [NoColl EXCEPT !.exists = TRUE, !.owner_uid = v3aux.uid[r],
                                   !.name = "Personal Collection",
                                   !.is_personal = TRUE]]
    /\ v3aux' = [v3aux EXCEPT !.pc[r] = "idle", !.uid[r] = NoId]
    /\ resp' = [Resp("personal", v3aux.uid[r], 200) EXCEPT !.coll = c]
    /\ UNCHANGED <<songs, bg, v2db>>

\* GET /api/v3/spotify/auth-url: the URL handed to the user carries the
\* user's uid as state
GetSpotifyAuthUrl(u) ==
    /\ v3aux' = [v3aux EXCEPT !.handed = @ \cup {u}]
    /\ resp' = [Resp("auth_url", u, 200) EXCEPT !.pid = u]
    /\ UNCHANGED <<colls, songs, bg, v2db>>

\* SpotifyPlaybackService.save_user_token: the token record of uid
SaveUserToken(tokens, uid, account) == [tokens EXCEPT ![uid] = account]

\* GET /api/v3/spotify/callback, which needs no login: state and code are the
\* query parameters (NoId when missing), code standing for the Spotify account
\* that granted it, error the error parameter, exchanged whether
\* exchange_code_for_token and check_premium_status succeed
SpotifyCallback(state, code, error, exchanged) ==
    LET st == IF error THEN 200
              ELSE IF code = NoId \/ state = NoId THEN 400
              ELSE 200
        saves == ~error /\ st = 200 /\ exchanged
    IN /\ resp' = [Resp("spotify_callback", NoId, st) EXCEPT !.pid = state,
                                                            !.again = saves]
       /\ v3aux' = IF saves
                   THEN [v3aux EXCEPT
                           !.spotify_tokens = SaveUserToken(@, state, code)]
                   ELSE v3aux
       /\ UNCHANGED <<colls, songs, bg, v2db>>

\* ------------------------------------------------------------------ line numbering
\* a line is a sequence of characters; " " stands for any whitespace
RECURSIVE LStrip(_)
LStrip(line) ==
    IF line # <<>> /\ Head(line) = " " THEN LStrip(Tail(line)) ELSE line

RECURSIVE RStrip(_)
RStrip(line) ==
    IF line # <<>> /\ line[Len(line)] = " "
    THEN RStrip(SubSeq(line, 1, Len(line) - 1))
    ELSE line

\* str.strip()
Strip(line) == RStrip(LStrip(line))

\* re.match(r'^\[.*\]', line.strip()): the stripped line starts with "[" and
\* has a "]" after it
IsSectionHeader(line) ==
    LET t == Strip(line)
    IN t # <<>> /\ t[1] = "[" /\ \E i \in 2..Len(t) : t[i] = "]"

\* the elif of _add_line_numbers: line.strip() is not empty
IsContentLine(line) == ~IsSectionHeader(line) /\ Strip(line) # <<>>

\* a counter that every line advances
NextLineNumEveryLine(line, n) == n + 1

\* line_num after one line of the loop of _add_line_numbers
NextLineNum(line, n) == IF IsContentLine(line) THEN n + 1 ELSE n

\* an output line: num is the number in front of it, 0 when there is none
OutLine(num, text) == [num |-> num, text |-> text]

\* re.sub(r'[\[\]]', '', text)
RECURSIVE RemoveBrackets(_)
RemoveBrackets(t) ==
    IF t = <<>> THEN <<>>
    ELSE IF Head(t) \in {"[", "]"} THEN RemoveBrackets(Tail(t))
    ELSE <<Head(t)>> \o RemoveBrackets(Tail(t))

\* the header as webapp_v3 writes it: the stripped line
HeaderText(line) == Strip(line)

\* the header as webapp_v2 writes it: **text** without the brackets
HeaderText2(line) == <<"*", "*">> \o RemoveBrackets(Strip(line)) \o <<"*", "*">>

\* what one line becomes in formatted_lines, as lines of the joined output:
\* a header is written after a newline of its own
FormatLine(line, n, v2) ==
    IF IsSectionHeader(line)
    THEN <<OutLine(0, <<>>),
           OutLine(0, IF v2 THEN HeaderText2(line) ELSE HeaderText(line))>>
    ELSE IF Strip(line) # <<>> THEN <<OutLine(n, line)>>
    ELSE <<OutLine(0, <<>>)>>

RECURSIVE NumberLines(_, _, _, _)
\* the loop of _add_line_numbers from line i on, line_num being n
NumberLines(lines, i, n, v2) ==
    IF i > Len(lines) THEN <<>>
    ELSE FormatLine(lines[i], n, v2)
            \o NumberLines(lines, i + 1, NextLineNum(lines[i], n), v2)

\* LyricsServiceV3._add_line_numbers, on lyrics.split('\n')
AddLineNumbers(lines) == NumberLines(lines, 1, 1, FALSE)

\* LyricsService._add_line_numbers (webapp_v2)
AddLineNumbers2(lines) == NumberLines(lines, 1, 1, TRUE)

\* LyricsServiceV3.renumber_lyrics, as PUT /api/v3/songs/<song_id> calls it
\* for the lyrics of the body; the text at hand is in resp.lines
RenumberLyrics(lines) ==
    /\ resp.op = "text" /\ resp.lines = lines
    /\ resp' = [Resp("renumber", NoId, 200) EXCEPT
                    !.lines = lines, !.numbered = AddLineNumbers(lines)]
    /\ UNCHANGED <<v3db, v2db>>

\* FirestoreService.update_lyrics (webapp_v2) numbering the lyrics it saves
RenumberLyrics2(lines) ==
    /\ resp.op = "text" /\ resp.lines = lines
    /\ resp' = [Resp("v2_renumber", NoId, 200) EXCEPT
                    !.lines = lines, !.numbered = AddLineNumbers2(lines)]
    /\ UNCHANGED <<v3db, v2db>>

Init ==
    /\ colls = [c \in CollIds |-> NoColl]
    /\ songs = [i \in SongIds |-> NoSong]
    /\ bg = {}
    /\ colls2 = [c \in CollIds |-> NoColl2]
    /\ songs2 = [sid \in SongIds2 |-> NoSong2]
    /\ memory2 = {}
    /\ oauth2 = NoOAuth
    /\ v3aux = NoAux3
    /\ resp = NoResp

\* ------------------------------------------------------------------ inputs
\* what a Spotify playlist can hold when it is fetched
TrackLists ==
    {<<>>, <<"t1">>, <<"t1", "t1">>, <<"t1", "t2">>, <<NoTrackId, "t2">>}

NoFetch == [tracks |-> <<>>, ok |-> TRUE]

\* the answers of Spotify to one fetch of a playlist: its content, or a
\* failed call while the playlist holds some content
FetchInputs ==
    {[tracks |-> l, ok |-> TRUE] : l \in TrackLists}
    \cup {[tracks |-> <<"t1", "t2">>, ok |-> FALSE]}

\* the answers a sync gets for one linked playlist
SyncInputs == {f \in FetchInputs : f.tracks # <<"t1", "t1">>}

\* the fetches of one sync, one answer per linked playlist
Fetches(c) ==
    {[p \in Playlists |-> IF p = "p1" THEN f1 ELSE f2] :
        f1 \in IF "p1" \in LinkedIds(c) THEN SyncInputs ELSE {NoFetch},
        f2 \in IF "p2" \in LinkedIds(c) THEN SyncInputs ELSE {NoFetch}}

\* the playlist_ids bodies of reorder requests
ReorderBodies == {<<>>, <<"p1">>, <<"p2", "p1">>, <<"p1", "p1">>}

\* ------------------------------------------------------------------ Spec
\* playlist reconciliation: import, sync, unlink and reorder in one collection
Next ==
    \/ CreateCollection("u1", "c1", "A", FALSE)
    \/ \E p \in Playlists, f \in FetchInputs :
          ImportPlaylist("u1", "c1", p, TRUE, f.tracks, f.ok)
    \/ \E fetch \in Fetches("c1") : SyncPlaylists("u1", "c1", fetch)
    \/ \E p \in Playlists : UnlinkPlaylist("u1", "c1", p)
    \/ \E ids \in ReorderBodies : ReorderPlaylists("u1", "c1", ids)

Spec == Init /\ [][Next]_vars

\* ------------------------------------------------------------------ SpecContent
\* song content: the owner imports and syncs one playlist with one track,
\* edits the song, refreshes its lyrics, and the background prefetch runs
NoBody == [has |-> {}, lyrics |-> "", custom_lyrics |-> FALSE, notes |-> "",
           bpm |-> "N/A"]

PutBodies ==
    {NoBody,
     [NoBody EXCEPT !.has = {"lyrics", "custom_lyrics"}, !.lyrics = "user",
                    !.custom_lyrics = TRUE],
     [NoBody EXCEPT !.has = {"notes"}, !.notes = "note"],
     [NoBody EXCEPT !.has = {"bpm"}, !.bpm = "120"]}

GeniusAnswers == {"ok", "NOT_FOUND"}

BpmAnswers == {"fetched", "NOT_FOUND"}

OneFetch(l) == [p \in Playlists |-> IF p = "p1" THEN [tracks |-> l, ok |-> TRUE]
                                    ELSE NoFetch]

NextContent ==
    \/ CreateCollection("u1", "c1", "A", FALSE)
    \/ ImportPlaylist("u1", "c1", "p1", TRUE, <<"t1">>, TRUE)
    \/ \E l \in {<<>>, <<"t1">>} : SyncPlaylists("u1", "c1", OneFetch(l))
    \/ \E s \in SongIds, body \in PutBodies : PutSong("u1", s, body)
    \/ \E s \in SongIds, fc \in BOOLEAN, g \in GeniusAnswers :
          FetchSongLyrics("u1", s, fc, g)
    \/ \E s \in SongIds, g \in GeniusAnswers : BgFetchLyrics("c1", s, g)
    \/ \E s \in SongIds, b \in BpmAnswers : BgFetchBpm("c1", s, b)
    \/ BgDone("c1")

SpecContent == Init /\ [][NextContent]_vars

\* ------------------------------------------------------------------ SpecPerm
\* permissions: u1 owns collection c1, shares it or not, and both users send
\* every mutating request
NoCollBody == [has |-> {}, name |-> "", is_public |-> FALSE, collaborators |-> {}]

CollBodies ==
    {[NoCollBody EXCEPT !.has = {"collaborators"}, !.collaborators = {"u2"}],
     [NoCollBody EXCEPT !.has = {"collaborators"}],
     [NoCollBody EXCEPT !.has = {"is_public"}, !.is_public = TRUE],
     [NoCollBody EXCEPT !.has = {"is_public"}]}

NotesBodies == {NoBody, [NoBody EXCEPT !.has = {"notes"}, !.notes = "note"]}

NextPerm ==
    \/ \E pub \in BOOLEAN : CreateCollection("u1", "c1", "A", pub)
    \/ \E u \in Users, body \in CollBodies : UpdateCollection(u, "c1", body)
    \/ \E u \in Users : DeleteCollection(u, "c1")
    \/ \E u \in Users, url \in {"p1", ""} :
          ImportPlaylist(u, "c1", url, TRUE, <<"t1">>, TRUE)
    \/ \E u \in Users, l \in {<<>>, <<"t1">>} : SyncPlaylists(u, "c1", OneFetch(l))
    \/ \E u \in Users, p \in {"p1", NoId} : UnlinkPlaylist(u, "c1", p)
    \/ \E u \in Users, ids \in {<<>>, <<"p1">>} : ReorderPlaylists(u, "c1", ids)
    \/ \E u \in Users, s \in SongIds, body \in NotesBodies : PutSong(u, s, body)
    \/ \E u \in Users, s \in SongIds : DeleteSong(u, s)
    \/ \E u \in Users, s \in SongIds : FetchSongLyrics(u, s, FALSE, "ok")

SpecPerm == Init /\ [][NextPerm]_vars

\* ------------------------------------------------------------------ SpecCustom
\* customized lyrics.  No webapp_v3 handler sets is_customized, so the stored
\* song of collection c1 is drawn with the flag either way; in webapp_v2 the
\* flag is set by update_lyrics.
StoredSongs ==
    {[NewSong("c1", "p1", "t1") EXCEPT !.is_customized = b, !.lyrics = l,
                                        !.lyrics_fetched = (l # "")] :
        b \in BOOLEAN, l \in {"", "user", "genius"}}

InitCustom ==
    /\ colls = [c \in CollIds |->
                  IF c = "c1"
                  THEN [NoColl EXCEPT
                          !.exists = TRUE, !.owner_uid = "u1", !.name = "A",
                          !.linked_playlists =
                              <<[playlist_id |-> "p1", linked_at |-> 0]>>,
                          !.song_count = 1]
                  ELSE NoColl]
    /\ \E doc \in StoredSongs :
          songs = [i \in SongIds |-> IF i = 1 THEN doc ELSE NoSong]
    /\ bg = {}
    /\ colls2 = [c \in CollIds |-> NoColl2]
    /\ songs2 = [sid \in SongIds2 |-> NoSong2]
    /\ memory2 = {}
    /\ oauth2 = NoOAuth
    /\ v3aux = NoAux3
    /\ resp = NoResp

Song2 == CreateSongId("t1", "c1")

NextCustom ==
    \/ \E s \in SongIds, fc \in BOOLEAN, g \in GeniusAnswers :
          FetchSongLyrics("u1", s, fc, g)
    \/ CreateCollection2("u1", "c1", "A")
    \/ ImportSelectedSongs("u1", "c1", "p1", {Song2}, <<"t1">>, TRUE)
    \/ UpdateLyrics("u1", Song2, "user")
    \/ \E fo \in BOOLEAN, g \in GeniusAnswers : RefreshSong("u1", Song2, fo, g)

SpecCustom == InitCustom /\ [][NextCustom]_vars

\* ------------------------------------------------------------------ SpecV2
\* webapp_v2 song content: u1 owns collection c1 and may share it with u2 as
\* collaborator; both users send every request that writes song content
CollBodies2 ==
    {[has |-> {"is_shared", "collaborators"}, name |-> "", is_shared |-> TRUE,
      collaborators |-> {"u2"}],
     [has |-> {"is_shared"}, name |-> "", is_shared |-> FALSE, collaborators |-> {}],
     [has |-> {"collaborators"}, name |-> "", is_shared |-> FALSE,
      collaborators |-> {}]}

Songs2OfC1 == {CreateSongId(t, "c1") : t \in Tracks}

NextV2 ==
    \/ CreateCollection2("u1", "c1", "A")
    \/ \E u \in Users, body \in CollBodies2 : UpdateCollection2(u, "c1", body)
    \/ \E u \in Users, sel \in {{}, {Song2}}, ok \in BOOLEAN :
          ImportSelectedSongs(u, "c1", "p1", sel, <<"t1">>, ok)
    \/ \E u \in Users, sid \in Songs2OfC1 : UpdateNotes(u, sid, "note")
    \/ \E u \in Users, sid \in Songs2OfC1 : UpdateLyrics(u, sid, "user")
    \/ \E u \in Users, sid \in Songs2OfC1, b \in {"none", "120", "fast"} :
          UpdateBpm(u, sid, b)
    \/ \E u \in Users, sid \in Songs2OfC1, found \in {"fetched", "N/A"} :
          FetchBpm(u, sid, found)
    \/ \E u \in Users, sid \in Songs2OfC1, fo \in BOOLEAN, g \in GeniusAnswers :
          RefreshSong(u, sid, fo, g)

SpecV2 == Init /\ [][NextV2]_vars

\* ------------------------------------------------------------------ SpecShare
\* sharing: u1 creates collection c1, either user opens the collection list
\* (which creates a Personal Collection, c2), and both users update and
\* delete collections, ask for access, answer such requests, import and sync
ShareBodies ==
    {[NoCollBody EXCEPT !.has = {"name"}, !.name = "B"],
     [NoCollBody EXCEPT !.has = {"is_personal"}],
     [NoCollBody EXCEPT !.has = {"is_public"}, !.is_public = TRUE],
     [NoCollBody EXCEPT !.has = {"is_public"}],
     [NoCollBody EXCEPT !.has = {"collaborators"}, !.collaborators = {"u2"}],
     [NoCollBody EXCEPT !.has = {"collaborators"}]}

NextShare ==
    \/ \E u \in Users : GetOrCreatePersonalCollection(u, "c2")
    \/ \E pub \in BOOLEAN : CreateCollection("u1", "c1", "A", pub)
    \/ \E u \in Users, c \in CollIds, body \in ShareBodies :
          UpdateCollection(u, c, body)
    \/ \E u \in Users, c \in CollIds : DeleteCollection(u, c)
    \/ \E u \in Users, c \in CollIds : RequestCollaboration(u, c)
    \/ \E u \in Users, c \in CollIds, r \in Users \cup {NoId} :
          AcceptCollaborator(u, c, r)
    \/ \E u \in Users, c \in CollIds, r \in Users \cup {NoId} :
          DenyCollaborator(u, c, r)
    \/ \E u \in Users : ImportPlaylist(u, "c1", "p1", TRUE, <<"t1">>, TRUE)
    \/ \E u \in Users : SyncPlaylists(u, "c1", OneFetch(<<"t1">>))

SpecShare == Init /\ [][NextShare]_vars

\* ------------------------------------------------------------------ SpecDelete
\* deleting collections.  webapp_v3: u1 creates c1, imports into it, syncs
\* and deletes it.  webapp_v2: either user opens the Default collection, u1
\* creates collection c1, and both users rename, import into and delete
\* collections
RenameBodies2 ==
    {[has |-> {"name"}, name |-> "B", is_shared |-> FALSE, collaborators |-> {}],
     [has |-> {"name"}, name |-> "Default", is_shared |-> FALSE,
      collaborators |-> {}]}

NextDelete ==
    \/ CreateCollection("u1", "c1", "A", FALSE)
    \/ ImportPlaylist("u1", "c1", "p1", TRUE, <<"t1", "t2">>, TRUE)
    \/ SyncPlaylists("u1", "c1", OneFetch(<<"t1">>))
    \/ \E u \in Users : DeleteCollection(u, "c1")
    \/ \E u \in Users, c \in CollIds : GetOrCreateDefaultCollection2(u, c)
    \/ \E c \in CollIds : CreateCollection2("u1", c, "A")
    \/ \E u \in Users, c \in CollIds, body \in RenameBodies2 :
          UpdateCollection2(u, c, body)
    \/ \E c \in CollIds, t \in Tracks :
          ImportSelectedSongs("u1", c, "p1", {CreateSongId(t, c)}, <<"t1", "t2">>,
                              TRUE)
    \/ \E u \in Users, c \in CollIds : DeleteCollection2(u, c)

SpecDelete == Init /\ [][NextDelete]_vars

\* ------------------------------------------------------------------ SpecSync2
\* the answers of Spotify to fetch_playlist_tracks_metadata for one playlist
SyncInputs2 ==
    {[tracks |-> l, ok |-> TRUE] : l \in {<<>>, <<"t1">>, <<"t1", "t2">>}}
    \cup {[tracks |-> <<"t1", "t2">>, ok |-> FALSE]}

\* the fetches of one webapp_v2 sync, one answer per playlist
Fetches2 == [Playlists -> SyncInputs2]

\* webapp_v2: linking playlists, forgetting them and syncing one collection
NextSync2 ==
    \/ CreateCollection2("u1", "c1", "A")
    \/ \E u \in Users, url \in Playlists \cup {""}, ok \in BOOLEAN :
          LinkPlaylist2(u, "c1", url, ok)
    \/ \E u \in Users, p \in Playlists : DeletePlaylistMemory2(u, p)
    \/ \E u \in Users, fetch \in Fetches2 : SyncCollection2(u, "c1", fetch)

SpecSync2 == Init /\ [][NextSync2]_vars

\* ------------------------------------------------------------------ SpecLyrics
\* what the Genius lookup gives: lyrics, no search hit, an empty scrape, or
\* an exception
AllGeniusAnswers == {"ok", "NOT_FOUND", "SCRAPE_FAILED", "EXC"}

\* fetching lyrics on request for one song, in webapp_v3 and in webapp_v2
NextLyrics ==
    \/ CreateCollection("u1", "c1", "A", FALSE)
    \/ ImportPlaylist("u1", "c1", "p1", TRUE, <<"t1">>, TRUE)
    \/ \E s \in SongIds : PutSong("u1", s, [NoBody EXCEPT !.has = {"lyrics"},
                                                           !.lyrics = "user"])
    \/ \E u \in Users, s \in SongIds, fc \in BOOLEAN, g \in AllGeniusAnswers :
          FetchSongLyrics(u, s, fc, g)
    \/ CreateCollection2("u1", "c1", "A")
    \/ ImportSelectedSongs("u1", "c1", "p1", {Song2}, <<"t1">>, TRUE)
    \/ UpdateLyrics("u1", Song2, "user")
    \/ \E u \in Users, fo \in BOOLEAN, g \in AllGeniusAnswers :
          RefreshSong(u, Song2, fo, g)

SpecLyrics == Init /\ [][NextLyrics]_vars

\* ------------------------------------------------------------------ SpecOAuth
\* the Spotify OAuth round trip of webapp_v2: state tokens are given out, time
\* passes, and callbacks verify tokens, two at a time
NextOAuth ==
    \/ \E t \in ClockValues : Tick(t)
    \/ \E u \in Users, k \in Tokens : GetAuthUrl(u, k)
    \/ \E v \in Verifiers, k \in Tokens : VerifyGet(v, k)
    \/ \E v \in Verifiers, exchanged \in BOOLEAN : VerifyFinish(v, exchanged)

SpecOAuth == Init /\ [][NextOAuth]_vars

\* ------------------------------------------------------------------ SpecNumbering
MaxLines == 3

\* the lines tried: blank, whitespace, headers, text, text with spaces around
\* it, and brackets that make no header
SomeLines ==
    {<<>>, <<" ">>, <<"[", "a", "]">>, <<" ", "[", "]", " ">>, <<"[", "]", "a">>,
     <<"a">>, <<" ", "a", " ">>, <<"[", "a">>, <<"a", "[", "]">>}

\* lyrics.split('\n') gives at least one line
LyricsTexts == UNION {[1..n -> SomeLines] : n \in 1..MaxLines}

NextNumbering ==
    \/ \E lines \in LyricsTexts : RenumberLyrics(lines)
    \/ \E lines \in LyricsTexts : RenumberLyrics2(lines)

\* no document is stored and a lyrics text is at hand
InitNumbering ==
    /\ colls = [c \in CollIds |-> NoColl]
    /\ songs = [i \in SongIds |-> NoSong]
    /\ bg = {}
    /\ colls2 = [c \in CollIds |-> NoColl2]
    /\ songs2 = [sid \in SongIds2 |-> NoSong2]
    /\ memory2 = {}
    /\ oauth2 = NoOAuth
    /\ v3aux = NoAux3
    /\ \E lines \in LyricsTexts :
          resp = [Resp("text", NoId, 0) EXCEPT !.lines = lines]

SpecNumbering == InitNumbering /\ [][NextNumbering]_vars

\* ------------------------------------------------------------------ SpecPersonal
\* the sharing bodies an owner sends for a collection
PersonalBodies == {b \in ShareBodies : "name" \notin b.has}

\* users list their collections, two requests at a time, and update and
\* delete what they own
NextPersonal ==
    \/ \E r \in Callers, u \in Users : PersonalQuery(r, u)
    \/ \E r \in Callers, c \in CollIds : PersonalCreate(r, c)
    \/ \E u \in Users, c \in CollIds, body \in PersonalBodies :
          UpdateCollection(u, c, body)
    \/ \E u \in Users, c \in CollIds : DeleteCollection(u, c)

SpecPersonal == Init /\ [][NextPersonal]_vars

\* ------------------------------------------------------------------ SpecSpotify3
\* connecting Spotify in webapp_v3: users ask for the auth URL, and callback
\* requests arrive from anyone
NextSpotify3 ==
    \/ \E u \in Users : GetSpotifyAuthUrl(u)
    \/ \E state \in Users \cup {NoId}, code \in Accounts \cup {NoId},
          error \in BOOLEAN, exchanged \in BOOLEAN :
          SpotifyCallback(state, code, error, exchanged)

SpecSpotify3 == Init /\ [][NextSpotify3]_vars

C2_IdentityIsCollectionAndTrack ==
    \A i, j \in SongIds :
        (songs[i].exists /\ songs[j].exists
           /\ songs[i].collection_id = songs[j].collection_id
           /\ songs[i].track = songs[j].track)
        => i = j

\* C3: when a sync-playlists request has completed, every song of the
\* collection is orphaned exactly when its track is in none of the track lists
\* the sync fetched for the linked playlists.
C3_OrphanedIffInNoFetchedList ==
    (resp.op = "sync" /\ resp.status = 200)
    => \A i \in SongsOf(songs, resp.coll) :
          songs[i].is_orphaned <=> (songs[i].track \notin resp.seen)

\* C4: when an import request has completed, every song of the collection
\* whose track is in the imported playlist has is_orphaned = FALSE.
C4_ImportClearsOrphanFlag ==
    (resp.op = "import" /\ resp.status = 200)
    => \A i \in SongsOf(songs, resp.coll) :
          songs[i].track \in Range(resp.tracks) => ~songs[i].is_orphaned

\* C5: after a sync, no song is orphaned whose track is still in a linked
\* playlist of the collection on Spotify, whether or not the fetch of that
\* playlist succeeded.
C5_FailedFetchOrphansNothingPresent ==
    (resp.op = "sync" /\ resp.status = 200)
    => \A i \in SongsOf(songs, resp.coll) :
          songs[i].is_orphaned => songs[i].track \notin resp.present

\* C6: the handler of an import or sync request leaves the lyrics, notes and
\* bpm of every song that existed before the request as they were.
C6_ImportSyncKeepContent ==
    [][resp'.op \in {"import", "sync"}
       => \A i \in SongIds :
             songs[i].exists
             => /\ songs'[i].exists
                /\ songs'[i].lyrics = songs[i].lyrics
                /\ songs'[i].notes = songs[i].notes
                /\ songs'[i].bpm = songs[i].bpm]_vars

\* an import or sync has just updated a song that carries lyrics, notes and a
\* bpm (a song the request creates has none of them)
C6_Witness ==
    /\ resp.op \in {"import", "sync"} /\ resp.status = 200
    /\ \E i \in SongsOf(songs, resp.coll) :
          /\ songs[i].track \in Range(resp.tracks) \cup resp.seen
          /\ songs[i].lyrics # "" /\ songs[i].notes # ""
          /\ songs[i].bpm # "N/A"

\* C8: lyrics saved by PUT /api/v3/songs/<id> are replaced by a lyrics fetch
\* (fetch-lyrics request or background prefetch) only when the fetch is
\* forced with force_customized.
C8_SavedLyricsProtected ==
    [][\A i \in SongIds :
          (songs[i].exists /\ songs[i].lyrics = "user"
             /\ resp'.op \in {"fetch_lyrics", "bg_lyrics"} /\ ~resp'.force)
          => songs'[i].lyrics = "user"]_vars
\* C7: a fetch-lyrics request without force_customized (webapp_v3) and a
\* refresh request without force_overwrite (webapp_v2) leave the lyrics and
\* the is_customized flag of every customized song unchanged.
C7_CustomizedSurvivesRefresh ==
    [][/\ (resp'.op = "fetch_lyrics" /\ ~resp'.force)
          => \A i \in SongIds :
                (songs[i].exists /\ songs[i].is_customized)
                => /\ songs'[i].lyrics = songs[i].lyrics
                   /\ songs'[i].is_customized
       /\ (resp'.op = "v2_refresh" /\ ~resp'.force)
          => \A sid \in SongIds2 :
                (songs2[sid].exists /\ songs2[sid].is_customized)
                => /\ songs2'[sid].lyrics = songs2[sid].lyrics
                   /\ songs2'[sid].is_customized]_vars

\* a webapp_v2 refresh without force_overwrite has been answered for a song
\* whose lyrics the user had edited
C7_Witness ==
    /\ resp.op = "v2_refresh" /\ resp.status = 200 /\ ~resp.force
    /\ songs2[CreateSongId(resp.track, resp.coll)].is_customized
    /\ songs2[CreateSongId(resp.track, resp.coll)].lyrics = "user"

\* the requests of webapp_v3 that write a song or a collection
MutatingOps ==
    {"put_song", "delete_song", "fetch_lyrics", "update_collection",
     "delete_collection", "import", "unlink", "reorder", "sync"}

\* the user is neither the owner nor a collaborator of the existing
\* collection c
Outsider(c, u) ==
    /\ c \in CollIds /\ colls[c].exists
    /\ colls[c].owner_uid # u /\ u \notin colls[c].collaborators

\* C9 as stated: every mutating request, with all its body fields present, of
\* a user who is neither owner nor collaborator of the collection is answered
\* with status 403.
C9_OutsiderGets403 ==
    [][(resp'.op \in MutatingOps /\ Outsider(resp'.coll, resp'.uid)
          /\ ~resp'.malformed)
       => resp'.status = 403]_vars

\* C9 amended: such a request is rejected and writes nothing.  The status is
\* 400 when import, unlink or reorder find a required body field missing,
\* 404 when import, unlink, reorder, sync or fetch-lyrics look up a collection
\* that is not public, and 403 in every other case.
C9_OutsiderRejected ==
    [][(resp'.op \in MutatingOps /\ Outsider(resp'.coll, resp'.uid))
       => /\ UNCHANGED <<colls, songs, bg>>
          /\ resp'.status =
                IF resp'.malformed THEN 400
                ELSE IF resp'.op \in {"import", "unlink", "reorder", "sync",
                                       "fetch_lyrics"}
                        /\ ~colls[resp'.coll].is_public THEN 404
                ELSE 403]_vars

\* an outsider's sync of a private collection that holds songs has been
\* answered 404
C9_Witness ==
    /\ resp.op = "sync" /\ resp.status = 404
    /\ Outsider(resp.coll, resp.uid)
    /\ SongsOf(songs, resp.coll) # {}

\* the user is the owner or a listed collaborator of the webapp_v2
\* collection c
OwnerOrCollaborator2(c, u) ==
    /\ c \in CollIds /\ colls2[c].exists
    /\ (colls2[c].user_id = u \/ u \in colls2[c].collaborators)

\* C10: a webapp_v2 request (update notes, update lyrics, update or fetch
\* BPM, refresh lyrics, import) from a user who is neither the owner nor a
\* collaborator of the collection leaves the lyrics, notes and bpm of its
\* songs unchanged.
C10_OnlyOwnerOrCollaboratorWrites ==
    [][(resp'.op \in {"v2_update_notes", "v2_update_lyrics", "v2_update_bpm",
                       "v2_fetch_bpm", "v2_refresh", "v2_import"}
          /\ ~OwnerOrCollaborator2(resp'.coll, resp'.uid))
       => \A sid \in SongIds2 :
             songs2[sid].exists
             => /\ songs2'[sid].lyrics = songs2[sid].lyrics
                /\ songs2'[sid].notes = songs2[sid].notes
                /\ songs2'[sid].bpm = songs2[sid].bpm]_vars

\* C11: a webapp_v3 collection is deleted, and its is_public flag or its
\* collaborators change, only in a step that answers 200 to an update, delete
\* or accept-collaborator request of the collection's owner for that
\* collection.
C11_OnlyOwnerChangesSharing ==
    [][\A c \in CollIds :
          (colls[c].exists
             /\ (~colls'[c].exists
                   \/ colls'[c].is_public # colls[c].is_public
                   \/ colls'[c].collaborators # colls[c].collaborators))
          => /\ resp'.uid = colls[c].owner_uid
             /\ resp'.coll = c
             /\ resp'.status = 200
             /\ resp'.op \in {"update_collection", "delete_collection",
                               "accept"}]_vars

\* a collaborator of a public collection has sent an update, delete or
\* accept-collaborator request for it and was answered 403
C11_Witness ==
    /\ resp.op \in {"update_collection", "delete_collection", "accept"}
    /\ resp.status = 403
    /\ colls[resp.coll].exists /\ colls[resp.coll].is_public
    /\ resp.uid \in colls[resp.coll].collaborators

\* C12: no request deletes a Personal Collection, clears its is_personal
\* flag or changes its name.
C12_PersonalKept ==
    [][\A c \in CollIds :
          (colls[c].exists /\ colls[c].is_personal)
          => /\ colls'[c].exists
             /\ colls'[c].is_personal
             /\ colls'[c].name = colls[c].name]_vars

\* the owner of a Personal Collection has tried to delete or to rename it
\* and was answered 400
C12_Witness ==
    /\ resp.op \in {"update_collection", "delete_collection"}
    /\ resp.status = 400
    /\ colls[resp.coll].exists /\ colls[resp.coll].is_personal
    /\ colls[resp.coll].owner_uid = resp.uid
    /\ colls[resp.coll].name = "Personal Collection"

\* C13: a webapp_v2 collection named 'Default' still exists and is still
\* named 'Default' after every request.
C13_DefaultKept ==
    [][\A c \in CollIds :
          (colls2[c].exists /\ colls2[c].name = "Default")
          => (colls2'[c].exists /\ colls2'[c].name = "Default")]_vars

\* C14: when a delete-collection request has been answered 200, in webapp_v3
\* or in webapp_v2, no song record carries the id of the deleted collection.
C14_DeleteCascades ==
    /\ (resp.op = "delete_collection" /\ resp.status = 200)
       => SongsOf(songs, resp.coll) = {}
    /\ (resp.op = "v2_delete_collection" /\ resp.status = 200)
       => SongsByCollection2(songs2, resp.coll) = {}

\* a webapp_v2 delete has just removed a collection with its two songs, and
\* the webapp_v3 collection c1 has been imported into and deleted
C14_Witness ==
    /\ resp.op = "v2_delete_collection" /\ resp.status = 200
    /\ resp.deleted = 2
    /\ "c1" \in bg /\ ~colls["c1"].exists

\* C15: a webapp_v3 song record is deleted only in a step that answers 200 to
\* a delete-song, unlink-playlist or delete-collection request of the owner
\* of the song's collection.
C15_OnlyOwnerDeletesSongs ==
    [][\A i \in SongIds :
          (songs[i].exists /\ ~songs'[i].exists)
          => /\ resp'.uid = colls[songs[i].collection_id].owner_uid
             /\ resp'.coll = songs[i].collection_id
             /\ resp'.status = 200
             /\ resp'.op \in {"delete_song", "unlink", "delete_collection"}]_vars

\* a collaborator has asked to delete an orphaned song and was answered 403;
\* the song is still there
C15_Witness ==
    /\ resp.op = "delete_song" /\ resp.status = 403
    /\ resp.song \in SongIds
    /\ songs[resp.song].exists /\ songs[resp.song].is_orphaned
    /\ resp.uid \in colls[songs[resp.song].collection_id].collaborators

\* C16: an orphaned song record is removed only by a DELETE of that song or
\* by the deletion of its collection.
C16_OrphanKeptUntilDeleted ==
    [][\A i \in SongIds :
          (songs[i].exists /\ songs[i].is_orphaned /\ ~songs'[i].exists)
          => \/ resp'.op = "delete_song" /\ resp'.song = i
             \/ resp'.op = "delete_collection"
                /\ resp'.coll = songs[i].collection_id]_vars

\* C17: when a webapp_v2 collection sync completes, a song that an earlier sync
\* flagged as removed and whose track the sync found again in one of the
\* collection's linked playlists is no longer flagged as removed.
C17_ReturnedTrackUnflagged ==
    [][(resp'.op = "v2_sync" /\ resp'.status = 200)
       => \A sid \in SongsByCollection2(songs2, resp'.coll) :
             (songs2[sid].is_removed_from_spotify /\ sid[2] \in resp'.seen)
                => ~songs2'[sid].is_removed_from_spotify]_vars

\* C18: a lyrics fetch never yields empty lyric text: after a fetch-lyrics
\* request of webapp_v3 or a refresh of webapp_v2 that ran the Genius lookup,
\* whatever the lookup gave (lyrics, no search hit, an empty scrape, an
\* exception), the lyrics of the song are a non-empty text.
C18_FetchedLyricsNeverEmpty ==
    [][/\ (resp'.op = "fetch_lyrics" /\ resp'.status = 200)
            => songs'[resp'.song].lyrics # ""
       /\ (resp'.op = "v2_refresh" /\ resp'.status = 200
              /\ ~RefreshBlocked(songs2[CreateSongId(resp'.track, resp'.coll)],
                                 resp'.force))
            => songs2'[CreateSongId(resp'.track, resp'.coll)].lyrics # ""]_vars

\* C19: deleting a playlist-memory entry leaves the outcome of the next sync of
\* every collection as it was: for every answer of Spotify, the sync creates,
\* updates and flags as removed the same songs with the entry deleted as with
\* the entry present.
C19_MemoryIsOnlyACache ==
    [][resp'.op = "v2_delete_memory"
       => \A c \in CollIds, fetch \in Fetches2 :
             LET with    == SyncCollectionPlaylists(songs2, c, colls2[c].playlist_ids,
                                                    fetch, memory2)
                 without == SyncCollectionPlaylists(songs2', c,
                                                    colls2'[c].playlist_ids,
                                                    fetch, memory2')
             IN /\ without.new = with.new
                /\ without.updated = with.updated
                /\ without.removed = with.removed
                /\ without.S = with.S]_vars

\* C20: a state token is one-time use with a one-hour lifetime: when a
\* verification returns the user of a token, the token was saved less than
\* 3600 seconds earlier and no other verification of the same token, earlier
\* or concurrent, has returned that user.
C20_StateTokenOneTimeOneHour ==
    [][(resp'.op = "v2_verify" /\ resp'.uid # NoId)
       => /\ oauth2'.clock - oauth2.states[resp'.pid].created_at < Lifetime
          /\ oauth2.returned[resp'.pid] = 0]_vars

\* the numbered lines of an output, in order
Numbered(out) == SelectSeq(out, LAMBDA o : o.num # 0)

\* the content lines of an input, in order
ContentLines(lines) == SelectSeq(lines, IsContentLine)

\* C21: in the output of _add_line_numbers the k-th input line that is neither
\* blank nor a section header carries the number k, section headers carry no
\* number and do not advance the counter, and blank lines stay blank.
C21_NumbersOnlyContentLines ==
    resp.op \in {"renumber", "v2_renumber"}
    => LET out     == resp.numbered
           content == ContentLines(resp.lines)
           headers == SelectSeq(resp.lines, IsSectionHeader)
           blanks  == SelectSeq(resp.lines, LAMBDA l : Strip(l) = <<>>)
           plain   == SelectSeq(out, LAMBDA o : o.num = 0 /\ o.text # <<>>)
           empty   == SelectSeq(out, LAMBDA o : o.num = 0 /\ o.text = <<>>)
       IN /\ Len(Numbered(out)) = Len(content)
          /\ \A k \in 1..Len(content) :
                Numbered(out)[k] = OutLine(k, content[k])
          /\ Len(plain) = Len(headers)
          /\ \A k \in 1..Len(headers) :
                plain[k].text = IF resp.op = "renumber" THEN HeaderText(headers[k])
                                ELSE HeaderText2(headers[k])
          /\ Len(empty) = Len(blanks) + Len(headers)

\* a text with a header between two content lines was numbered
C21_Witness ==
    /\ resp.op = "renumber"
    /\ resp.lines = <<<<"a">>, <<"[", "a", "]">>, <<" ", "a", " ">>>>
    /\ Len(resp.numbered) = 4
    /\ resp.numbered[4] = OutLine(2, <<" ", "a", " ">>)

\* C22: the background prefetch never overwrites a user's edit: a step of the
\* background thread leaves lyrics and bpm that a PUT has saved ("user", "120")
\* as they are, so that the user's value is the one stored when both have
\* finished.
C22_PrefetchKeepsUserEdit ==
    [][resp'.op \in {"bg_lyrics", "bg_bpm"}
       => \A s \in SongIds :
             /\ songs[s].lyrics = "user" => songs'[s].lyrics = "user"
             /\ songs[s].bpm = "120" => songs'[s].bpm = "120"]_vars

\* C23: a webapp_v3 lyrics fetch that fails (no search result, scrape failure or
\* exception in the lookup, recorded in lyrics_fetch_error) leaves the lyrics
\* the song had before the fetch as they were.
C23_FailedFetchKeepsLyrics ==
    [][(resp'.op = "fetch_lyrics" /\ resp'.status = 200
          /\ songs'[resp'.song].lyrics_fetch_error # "none")
       => songs'[resp'.song].lyrics = songs[resp'.song].lyrics]_vars

\* C24: when a webapp_v2 collection sync completes, the source_playlist_ids of
\* each song contains every linked playlist whose fetched track list contains
\* the song's track, also for a track that is new to the collection and is in
\* two of the linked playlists.
C24_SourcesHoldEveryPlaylist ==
    [][(resp'.op = "v2_sync" /\ resp'.status = 200)
       => \A pt \in resp'.fetched :
             pt[1] \in songs2'[CreateSongId(pt[2], resp'.coll)].source_playlist_ids]_vars

\* C25: a collection's linked_playlists never contains two entries with the
\* same playlist_id.
C25_NoPlaylistLinkedTwice ==
    \A c \in CollIds :
       \A i, j \in DOMAIN colls[c].linked_playlists :
          colls[c].linked_playlists[i].playlist_id
             = colls[c].linked_playlists[j].playlist_id
          => i = j

\* C26: reorder-playlists only permutes: after a reorder request that the
\* owner sent with a non-empty playlist_ids list and that was answered 200, the
\* collection has the same set of linked playlists as before.
C26_ReorderOnlyPermutes ==
    [][(resp'.op = "reorder" /\ resp'.status = 200)
       => {e.playlist_id : e \in Range(colls'[resp'.coll].linked_playlists)}
             = {e.playlist_id : e \in Range(colls[resp'.coll].linked_playlists)}]_vars

\* C27: each user has at most one Personal Collection in every reachable state,
\* also when several requests of the same new user run
\* get_or_create_personal_collection at the same time.
C27_OnePersonalCollection ==
    \A u \in Users : Cardinality(PersonalOf(u)) <= 1

\* C29: a Personal Collection cannot be shared: in every reachable state its
\* is_public flag is false and its collaborators list is empty.
C29_PersonalNeverShared ==
    \A c \in CollIds :
       (colls[c].exists /\ colls[c].is_personal)
          => ~colls[c].is_public /\ colls[c].collaborators = {}

\* C28: the Spotify callback of webapp_v3 stores tokens under a user's uid only
\* if that user started the authorization: a step changes the token record of
\* a user only if get_spotify_auth_url has handed that user the state.
C28_TokenOnlyForStarter ==
    [][\A u \in Users :
          v3aux'.spotify_tokens[u] # v3aux.spotify_tokens[u]
             => u \in v3aux.handed]_vars

\* C30: after each import, sync-playlists, unlink-playlist or delete-song
\* request that completes, the collection's song_count equals the number of
\* non-orphaned song records stored for the collection.
C30_SongCountIsNonOrphaned ==
    [][(resp'.op \in {"import", "sync", "unlink", "delete_song"}
          /\ resp'.status = 200)
       => colls'[resp'.coll].song_count = NonOrphanedCount(songs', resp'.coll)]_vars

====
